---- MODULE Spec2Model ----
(***************************************************************************)
(* The asset graph engine of bdp (src/bdp/materialize.py): one call of     *)
(* materialize() as a state machine.  Discovery, dependency validation,    *)
(* selection, topological ordering and the per-kind materializers are each *)
(* one action; every function of the source is an operator computed the    *)
(* way the source computes it.                                             *)
(*                                                                         *)
(* A qualified asset name "schema.table" is a natural number of Names; the *)
(* order of the numbers is the order of the strings.  A path is the index  *)
(* of the file in the sorted list asset_files() returns.                   *)
(***************************************************************************)
EXTENDS Integers, Sequences, FiniteSets, TLC

\* Number of distinct qualified names that files and requests may mention.
NumNames == 3
\* Number of entries under the datasets directory, when the walk is modelled.
MaxEntries == 3
\* Number of lines of a file, when its text is modelled.
MaxLines == 3
\* Total number of dependency entries declared over all files of the tree.
MaxDeclared == 2
\* Number of distinct names in one request.
MaxRequested == 2

Names == 1..NumNames

Range(s) == {s[i] : i \in DOMAIN s}

Min(S) == CHOOSE x \in S : \A y \in S : x <= y

\* Python's sorted() over a set of names.
RECURSIVE sorted(_)
sorted(S) ==
    IF S = {} THEN <<>> ELSE <<Min(S)>> \o sorted(S \ {Min(S)})

\* The orders in which Python may iterate a set: string hashes are salted per
\* process, so any order of the elements can come out.
IterationOrders(S) ==
    {s \in [1..Cardinality(S) -> S] : Range(s) = S}

\* The schema part of a qualified name: names 1,2 share schema 1, names 3,4
\* share schema 2, and so on.
SchemaOf(name) == (name + 1) \div 2

\* An exception: its type, and the asset names and the paths its message holds.
Raise(type, inNames, inPaths) ==
    [type |-> type, names |-> inNames, paths |-> inPaths]

NoError == Raise("none", <<>>, <<>>)

(***************************************************************************)
(* The files of the datasets tree, in sorted path order.  A file either    *)
(* fails to parse or carries the qualified name and the dependency tuple   *)
(* parse_dataset_metadata returns for it.                                  *)
(***************************************************************************)
Unparsable == [parsed |-> FALSE, name |-> 0, depends |-> <<>>]

Parsed(name, depends) == [parsed |-> TRUE, name |-> name, depends |-> depends]

\* The suffix of the file at a path: the tree holds .py, .sh and .sql files.
Suffix(path) == <<".py", ".sh", ".sql">>[((path - 1) % 3) + 1]

\* A file of the tree: its path, its suffix and what parsing its text gives.
File(path, suffix, content) ==
    [path |-> path, suffix |-> suffix, parsed |-> content.parsed,
     name |-> content.name, depends |-> content.depends]

ASSET_SUFFIXES == [p \in {".py", ".sql", ".sh"} |->
    IF p = ".py" THEN "python" ELSE IF p = ".sql" THEN "sql" ELSE "bash"]

\* Dependency declarations <<owner, target>> in file order, owners ascending.
Declarations(D) ==
    UNION {{e \in [1..k -> D \X Names] :
              \A i \in 1..(k - 1) : e[i][1] <= e[i + 1][1]} : k \in 0..MaxDeclared}

DependsOf(e, owner) ==
    LET mine == SelectSeq(e, LAMBDA d : d[1] = owner)
    IN [i \in 1..Len(mine) |-> mine[i][2]]

\* Trees whose files all parse, with distinct names in path order.
DeclaredTrees ==
    {[i \in 1..Cardinality(D) |->
         File(i, Suffix(i), Parsed(sorted(D)[i], DependsOf(e, sorted(D)[i])))] :
        <<D, e>> \in {<<D, e>> \in (SUBSET Names) \X Declarations(Names) :
                          \A i \in DOMAIN e : e[i][1] \in D}}

\* Trees discovery fails on: a file that does not parse or two files that
\* resolve to one name, with any names in any path order.
BrokenTrees ==
    {[i \in DOMAIN t |-> File(i, Suffix(i), t[i])] :
        t \in {t \in UNION {[1..k -> {Unparsable} \cup {Parsed(n, <<>>) : n \in Names}] :
                               k \in 0..NumNames} :
                  \/ \E i \in DOMAIN t : ~t[i].parsed
                  \/ \E i, j \in DOMAIN t : i # j /\ t[i].name = t[j].name}}

Trees == DeclaredTrees \cup BrokenTrees

(***************************************************************************)
(* The directory walk.  An entry of the datasets directory is a directory  *)
(* or a file; its path is its rank among the paths in sorted order.        *)
(***************************************************************************)
\* Why asset_files skips an entry, if it does.
SkipReasons == {"none", "directory", "underscore", "pycache", "suffix"}

Entry(path, reason, content) ==
    [path |-> path,
     is_file |-> reason # "directory",
     underscore |-> reason = "underscore",
     pycache |-> reason = "pycache",
     suffix |-> IF reason = "suffix" THEN ".txt" ELSE Suffix(path),
     parsed |-> content.parsed, name |-> content.name, depends |-> content.depends]

\* What one entry may be: a file asset_files keeps, with any text; a file it
\* skips, whose text does not parse or resolves to the first name; a directory.
EntryChoices ==
    {<<"none", c>> : c \in {Unparsable} \cup {Parsed(n, <<>>) : n \in Names}}
        \cup ({"underscore", "pycache", "suffix"} \X {Unparsable, Parsed(1, <<>>)})
        \cup {<<"directory", Unparsable>>}

\* The datasets directory that holds the chosen entries, in path order.
Listing(choices) ==
    [i \in DOMAIN choices |-> Entry(i, choices[i][1], choices[i][2])]

\* Python's sorted() over a list of distinct paths.
sorted_paths(entries) ==
    LET paths == sorted({e.path : e \in Range(entries)})
    IN [i \in DOMAIN paths |->
           LET e == entries[CHOOSE j \in DOMAIN entries : entries[j].path = paths[i]]
           IN File(e.path, e.suffix, e)]

\* The entries the loop of asset_files appends.
Kept(rglob) ==
    SelectSeq(rglob, LAMBDA e :
        /\ e.is_file
        /\ ~e.underscore
        /\ ~e.pycache
        /\ e.suffix \in DOMAIN ASSET_SUFFIXES)

\* asset_files, `rglob` being the entries in the order rglob("*") yields them.
asset_files(rglob) == sorted_paths(Kept(rglob))

(***************************************************************************)
(* Discovery.  The dict `assets` is the sequence of its values in          *)
(* insertion order; its keys are the names of the assets.                  *)
(***************************************************************************)
keys(assets) == {assets[i].name : i \in DOMAIN assets}

Lookup(assets, name) == assets[CHOOSE i \in DOMAIN assets : assets[i].name = name]

asset_from_path(path, file) ==
    [name |-> file.name, schema |-> SchemaOf(file.name), path |-> path,
     kind |-> ASSET_SUFFIXES[file.suffix], depends |-> file.depends]

\* Variant: a later file with the name of an earlier one replaces it in the
\* dict.
RECURSIVE discover_from_overwriting(_, _, _)
discover_from_overwriting(tree, i, assets) ==
    IF i > Len(tree) THEN [error |-> NoError, assets |-> assets]
    ELSE IF ~tree[i].parsed
    THEN [error |-> Raise("ParseError", <<>>, <<tree[i].path>>), assets |-> <<>>]
    ELSE LET asset == asset_from_path(tree[i].path, tree[i])
         IN discover_from_overwriting(tree, i + 1,
                IF asset.name \in keys(assets)
                THEN [j \in DOMAIN assets |->
                         IF assets[j].name = asset.name THEN asset ELSE assets[j]]
                ELSE Append(assets, asset))

\* The loop of discover_assets from the i-th file of the sorted list on.
RECURSIVE discover_from(_, _, _)
discover_from(tree, i, assets) ==
    IF i > Len(tree) THEN [error |-> NoError, assets |-> assets]
    ELSE IF ~tree[i].parsed
    THEN [error |-> Raise("ParseError", <<>>, <<tree[i].path>>), assets |-> <<>>]
    ELSE LET asset == asset_from_path(tree[i].path, tree[i])
         IN IF asset.name \in keys(assets)
            THEN [error |-> Raise("DuplicateAssetName", <<asset.name>>, <<>>),
                  assets |-> <<>>]
            ELSE discover_from(tree, i + 1, Append(assets, asset))

discover_assets(tree) == discover_from(tree, 1, <<>>)

(***************************************************************************)
(* Dependency graph builder.                                               *)
(***************************************************************************)
\* Variant: only the existence of a reference is checked, not that it differs
\* from the asset's own name.
BadReferences_unknown_only(asset, assets) ==
    {j \in DOMAIN asset.depends : asset.depends[j] \notin keys(assets)}

\* The positions of asset.depends at which the inner loop raises.
BadReferences(asset, assets) ==
    {j \in DOMAIN asset.depends :
        asset.depends[j] = asset.name \/ asset.depends[j] \notin keys(assets)}

\* Variant: the declared tuple as it stands, neither deduplicated nor sorted.
DepsEntry_as_declared(asset) == asset.depends

\* deps_map[name] = sorted(set(deps))
DepsEntry(asset) == sorted(Range(asset.depends))

\* The outer loop of asset_dependencies from the i-th asset of the dict on.
RECURSIVE dependencies_from(_, _, _)
dependencies_from(assets, i, deps_map) ==
    IF i > Len(assets) THEN [error |-> NoError, deps_map |-> deps_map]
    ELSE LET asset == assets[i]
             bad == BadReferences(asset, assets)
         IN IF bad # {}
            THEN LET dep_name == asset.depends[Min(bad)]
                 IN [error |-> IF dep_name = asset.name
                               THEN Raise("SelfDependency", <<asset.name>>, <<>>)
                               ELSE Raise("UnknownDependency", <<dep_name>>,
                                          <<asset.path>>),
                     deps_map |-> <<>>]
            ELSE dependencies_from(assets, i + 1,
                                   deps_map @@ (asset.name :> DepsEntry(asset)))

asset_dependencies(assets) == dependencies_from(assets, 1, <<>>)

(***************************************************************************)
(* Selection resolver.  The argument `names` is None, a sized collection   *)
(* (list, tuple, set) or an iterator; `items` is the set of its elements.  *)
(***************************************************************************)
None == [kind |-> "none", items |-> {}]

Collection(items) == [kind |-> "sized", items |-> items]

Iterator(items) == [kind |-> "iterator", items |-> items]

\* bool(names): None and an empty sized collection are false; an iterator
\* object is true whatever it yields.
Truthy(names) ==
    \/ names.kind = "iterator"
    \/ names.kind = "sized" /\ names.items # {}

\* Variant: the dependencies of the stacked names are added but never pushed,
\* so their own dependencies are not visited.
closure_direct(selected, stack, deps_map, pushes) ==
    [selected |-> selected \cup UNION {Range(deps_map[n]) : n \in Range(stack)},
     pushes |-> pushes]

\* Variant: the stack is a queue and a name is added to the selection when it
\* is taken from it, not when it is put on it, so a name two queued names
\* depend on is put on it twice.
RECURSIVE closure_loop_select_on_pop(_, _, _, _)
closure_loop_select_on_pop(selected, stack, deps_map, pushes) ==
    IF stack = <<>> THEN [selected |-> selected, pushes |-> pushes]
    ELSE LET name == Head(stack)
             new == SelectSeq(deps_map[name], LAMBDA dep : dep \notin selected)
         IN closure_loop_select_on_pop(selected \cup {name}, Tail(stack) \o new,
                                       deps_map, pushes + Len(new))

\* The while loop of resolve_selection: pop the last name of the stack and
\* push each of its dependencies that is not selected yet.
RECURSIVE closure_loop(_, _, _, _)
closure_loop(selected, stack, deps_map, pushes) ==
    IF stack = <<>> THEN [selected |-> selected, pushes |-> pushes]
    ELSE LET name == stack[Len(stack)]
             new == SelectSeq(deps_map[name], LAMBDA dep : dep \notin selected)
         IN closure_loop(selected \cup Range(new),
                         SubSeq(stack, 1, Len(stack) - 1) \o new,
                         deps_map, pushes + Len(new))

\* Variant: the error names the first unknown asset only.
InitialSelection_first_unknown(names, all_assets, assets) ==
    IF all_assets THEN [error |-> NoError, selected |-> keys(assets)]
    ELSE IF ~Truthy(names)
    THEN [error |-> Raise("NoSelection", <<>>, <<>>), selected |-> {}]
    ELSE LET unknown == sorted(names.items \ keys(assets))
         IN IF unknown # <<>>
            THEN [error |-> Raise("UnknownAssets", <<unknown[1]>>, <<>>),
                  selected |-> {}]
            ELSE [error |-> NoError, selected |-> names.items]

\* Variant: the requested names are checked before all_assets is looked at.
InitialSelection_names_first(names, all_assets, assets) ==
    LET unknown == sorted(names.items \ keys(assets))
    IN IF unknown # <<>>
       THEN [error |-> Raise("UnknownAssets", unknown, <<>>), selected |-> {}]
       ELSE IF all_assets THEN [error |-> NoError, selected |-> keys(assets)]
       ELSE IF ~Truthy(names)
       THEN [error |-> Raise("NoSelection", <<>>, <<>>), selected |-> {}]
       ELSE [error |-> NoError, selected |-> names.items]

\* Variant: a request by name selects every discovered asset, as all_assets
\* does.
InitialSelection_everything(names, all_assets, assets) ==
    IF all_assets THEN [error |-> NoError, selected |-> keys(assets)]
    ELSE IF ~Truthy(names)
    THEN [error |-> Raise("NoSelection", <<>>, <<>>), selected |-> {}]
    ELSE LET unknown == sorted(names.items \ keys(assets))
         IN IF unknown # <<>>
            THEN [error |-> Raise("UnknownAssets", unknown, <<>>), selected |-> {}]
            ELSE [error |-> NoError, selected |-> keys(assets)]

\* The set resolve_selection starts the closure from, or the error it raises.
InitialSelection(names, all_assets, assets) ==
    IF all_assets THEN [error |-> NoError, selected |-> keys(assets)]
    ELSE IF ~Truthy(names)
    THEN [error |-> Raise("NoSelection", <<>>, <<>>), selected |-> {}]
    ELSE LET requested == names.items
             unknown == sorted(requested \ keys(assets))
         IN IF unknown # <<>>
            THEN [error |-> Raise("UnknownAssets", unknown, <<>>), selected |-> {}]
            ELSE [error |-> NoError, selected |-> requested]

\* `stack` is list(selected): the initial selection in the order the set
\* iterates.
resolve_selection(names, all_assets, assets, deps_map, stack) ==
    LET start == InitialSelection(names, all_assets, assets)
    IN IF start.error # NoError THEN start
       ELSE LET closed == closure_loop(start.selected, stack, deps_map, 0)
            IN [error |-> NoError, selected |-> closed.selected,
                pushes |-> closed.pushes]

(***************************************************************************)
(* Topological scheduler: graphlib.TopologicalSorter(graph).static_order() *)
(* over graph = {name: deps_map[name] for name in selected}.  `iteration`  *)
(* is the order in which the comprehension iterates the set `selected`.    *)
(***************************************************************************)
\* TopologicalSorter.add over the graph: the nodes in the order they enter
\* _node2info (a node, then its predecessors not seen before).
RECURSIVE node_order(_, _, _, _)
node_order(iteration, deps_map, i, nodes) ==
    IF i > Len(iteration) THEN nodes
    ELSE LET node == iteration[i]
             with == IF node \in Range(nodes) THEN nodes ELSE Append(nodes, node)
             preds == SelectSeq(deps_map[node], LAMBDA p : p \notin Range(with))
         IN node_order(iteration, deps_map, i + 1, with \o preds)

\* nodeinfo.successors of a node: its dependents, in the order they were added.
successors(iteration, deps_map, pred) ==
    SelectSeq(iteration, LAMBDA node : pred \in Range(deps_map[node]))

\* The nodes some dependency path leads back to.
RECURSIVE Ancestors(_, _)
Ancestors(S, deps_map) ==
    LET next == S \cup UNION {Range(deps_map[n]) : n \in S}
    IN IF next = S THEN S ELSE Ancestors(next, deps_map)

OnCycle(selected, deps_map) ==
    {n \in selected : n \in Ancestors(Range(deps_map[n]), deps_map)}

\* Variant: no cycle is ever reported.
find_cycle_skipped(selected, deps_map) == {}

\* What _find_cycle may return: a walk along successor edges from a node back
\* to itself, through distinct nodes.
find_cycle(selected, deps_map) ==
    LET C == OnCycle(selected, deps_map)
    IN UNION {{c \in [1..(k + 1) -> C] :
                 /\ c[1] = c[k + 1]
                 /\ \A i, j \in 1..k : i # j => c[i] # c[j]
                 /\ \A i \in 1..k : c[i] \in Range(deps_map[c[i + 1]])} :
              k \in 2..Cardinality(C)}

\* done(*group): each successor of each node of the group loses a
\* predecessor, and becomes ready when it has none left.
RECURSIVE done(_, _, _, _)
done(decrements, i, npredecessors, ready) ==
    IF i > Len(decrements) THEN [npredecessors |-> npredecessors, ready |-> ready]
    ELSE LET s == decrements[i]
             left == npredecessors[s] - 1
         IN done(decrements, i + 1, [npredecessors EXCEPT ![s] = left],
                 IF left = 0 THEN Append(ready, s) ELSE ready)

RECURSIVE concat(_, _, _, _)
concat(group, iteration, deps_map, i) ==
    IF i > Len(group) THEN <<>>
    ELSE successors(iteration, deps_map, group[i])
             \o concat(group, iteration, deps_map, i + 1)

\* The loop of static_order: yield the ready group, mark it done, repeat.
RECURSIVE static_order_loop(_, _, _, _, _)
static_order_loop(ready, npredecessors, iteration, deps_map, out) ==
    IF ready = <<>> THEN out
    ELSE LET after == done(concat(ready, iteration, deps_map, 1), 1,
                           npredecessors, <<>>)
         IN static_order_loop(after.ready, after.npredecessors, iteration,
                              deps_map, out \o ready)

\* Variant: the graph's own iteration order, dependencies not looked at.
static_order_as_iterated(iteration, deps_map) == iteration

\* prepare()'s ready nodes, then the loop.  Called on an acyclic graph.
static_order(iteration, deps_map) ==
    LET nodes == node_order(iteration, deps_map, 1, <<>>)
        npredecessors == [n \in Range(nodes) |-> Len(deps_map[n])]
        ready == SelectSeq(nodes, LAMBDA n : npredecessors[n] = 0)
    IN static_order_loop(ready, npredecessors, iteration, deps_map, <<>>)

(***************************************************************************)
(* Text.  A string is the sequence of its characters; the text of a file   *)
(* is the sequence of its lines, as source.splitlines() gives them.        *)
(***************************************************************************)
Whitespace == {" ", "\t"}

\* [A-Za-z_]
Alpha ==
    {"a", "b", "c", "d", "e", "f", "g", "h", "i", "j", "k", "l", "m", "n", "o", "p", "q", "r", "s", "t", "u", "v", "w", "x", "y", "z",
     "A", "B", "C", "D", "E", "F", "G", "H", "I", "J", "K", "L", "M", "N", "O", "P", "Q", "R", "S", "T", "U", "V", "W", "X", "Y", "Z", "_"}

\* [0-9]
Digits == {"0", "1", "2", "3", "4", "5", "6", "7", "8", "9"}

RECURSIVE lstrip(_)
lstrip(s) == IF s # <<>> /\ s[1] \in Whitespace THEN lstrip(Tail(s)) ELSE s

RECURSIVE rstrip(_)
rstrip(s) ==
    IF s # <<>> /\ s[Len(s)] \in Whitespace
    THEN rstrip(SubSeq(s, 1, Len(s) - 1)) ELSE s

strip(s) == rstrip(lstrip(s))

startswith(s, prefix) ==
    Len(s) >= Len(prefix) /\ SubSeq(s, 1, Len(prefix)) = prefix

\* sub in s
contains(s, sub) ==
    \E i \in 1..(Len(s) - Len(sub) + 1) : SubSeq(s, i, i + Len(sub) - 1) = sub

\* s.split(sep), for a separator of one character.
RECURSIVE split(_, _)
split(s, sep) ==
    IF sep \notin Range(s) THEN <<s>>
    ELSE LET i == Min({j \in DOMAIN s : s[j] = sep})
         IN <<SubSeq(s, 1, i - 1)>> \o split(SubSeq(s, i + 1, Len(s)), sep)

\* source.strip() on the text of a file: the lines from the first to the last
\* that is not blank, the first without its leading and the last without its
\* trailing whitespace; no line at all when the text is blank.
strip_source(source) ==
    LET inked == {i \in DOMAIN source : lstrip(source[i]) # <<>>}
    IN IF inked = {} THEN <<>>
       ELSE LET first == Min(inked)
                last == CHOOSE i \in inked : \A j \in inked : j <= i
            IN [i \in 1..(last - first + 1) |->
                   LET line == source[first + i - 1]
                       left == IF i = 1 THEN lstrip(line) ELSE line
                   IN IF first + i - 1 = last THEN rstrip(left) ELSE left]

COMMENT_PREFIXES == [kind \in {"python", "sql", "bash"} |->
    IF kind = "sql" THEN <<"-", "-">> ELSE <<"#">>]

\* IDENTIFIER_RE.fullmatch(value) is not None
IDENTIFIER_RE(value) ==
    /\ value # <<>>
    /\ value[1] \in Alpha
    /\ \A i \in 2..Len(value) : value[i] \in Alpha \cup Digits

\* The literal "dataset." of the pattern and of the test of line 188.
Marker == <<"d", "a", "t", "a", "s", "e", "t", ".">>

NoMatch == [matched |-> FALSE, key |-> <<>>, value |-> <<>>]

\* The length of the longest prefix of s made of identifier characters.
IdentifierRun(s) ==
    LET stops == {i \in DOMAIN s : s[i] \notin Alpha \cup Digits}
    IN IF stops = {} THEN Len(s) ELSE Min(stops) - 1

\* METADATA_LINE_RE.fullmatch(line): "dataset.", the key (the greedy identifier
\* can only be the whole run, since "=" and whitespace are not identifier
\* characters), optional whitespace, "=", optional whitespace, the value.
METADATA_LINE_RE(line) ==
    IF ~startswith(line, Marker) THEN NoMatch
    ELSE LET rest == SubSeq(line, Len(Marker) + 1, Len(line))
             k == IdentifierRun(rest)
             after == lstrip(SubSeq(rest, k + 1, Len(rest)))
         IN IF k = 0 \/ rest[1] \notin Alpha \/ after = <<>> \/ after[1] # "="
            THEN NoMatch
            ELSE [matched |-> TRUE, key |-> SubSeq(rest, 1, k),
                  value |-> lstrip(Tail(after))]

\* A ValueError of the metadata functions: the metadata key or the label its
\* message holds (or none), the path, and the line or value it quotes.
ParseFailure(type, key, path, quoted) ==
    [type |-> type, names |-> <<>>, paths |-> <<path>>, key |-> key,
     quoted |-> quoted]

\* The loop of extract_metadata_lines from the i-th line of the text on.
RECURSIVE extract_from(_, _, _, _)
extract_from(source, prefix, i, lines) ==
    IF i > Len(source) THEN lines
    ELSE LET stripped == lstrip(source[i])
         IN IF stripped = <<>> THEN extract_from(source, prefix, i + 1, lines)
            ELSE IF startswith(stripped, prefix)
            THEN LET content == lstrip(SubSeq(stripped, Len(prefix) + 1, Len(stripped)))
                 IN extract_from(source, prefix, i + 1,
                        IF content # <<>> THEN Append(lines, content) ELSE lines)
            ELSE lines

extract_metadata_lines(source, prefix) == extract_from(source, prefix, 1, <<>>)

\* The loop of parse_metadata_lines.  The dict `metadata` is the sequence of
\* the <<key, value>> pairs in the order they were appended.
RECURSIVE parse_lines_from(_, _, _, _)
parse_lines_from(lines, path, i, metadata) ==
    IF i > Len(lines) THEN [error |-> NoError, metadata |-> metadata]
    ELSE IF ~contains(lines[i], Marker)
    THEN parse_lines_from(lines, path, i + 1, metadata)
    ELSE LET match == METADATA_LINE_RE(lines[i])
         IN IF ~match.matched
            THEN [error |-> ParseFailure("InvalidLine", <<>>, path, lines[i]),
                  metadata |-> <<>>]
            ELSE parse_lines_from(lines, path, i + 1,
                     Append(metadata, <<match.key, strip(match.value)>>))

parse_metadata_lines(lines, path) == parse_lines_from(lines, path, 1, <<>>)

\* metadata.get(key, [])
Values(metadata, key) ==
    LET pairs == SelectSeq(metadata, LAMBDA kv : kv[1] = key)
    IN [i \in DOMAIN pairs |-> pairs[i][2]]

\* Variant: the first value is taken when the key is declared more than once.
single_metadata_value_first(metadata, key, path) ==
    LET values == Values(metadata, key)
    IN IF values = <<>>
       THEN [error |-> ParseFailure("MissingKey", key, path, <<>>), value |-> <<>>]
       ELSE IF values[1] = <<>>
       THEN [error |-> ParseFailure("KeyWithoutValue", key, path, <<>>), value |-> <<>>]
       ELSE [error |-> NoError, value |-> values[1]]

single_metadata_value(metadata, key, path) ==
    LET values == Values(metadata, key)
    IN IF values = <<>>
       THEN [error |-> ParseFailure("MissingKey", key, path, <<>>), value |-> <<>>]
       ELSE IF Len(values) # 1
       THEN [error |-> ParseFailure("KeyNotOnce", key, path, <<>>), value |-> <<>>]
       ELSE IF values[1] = <<>>
       THEN [error |-> ParseFailure("KeyWithoutValue", key, path, <<>>), value |-> <<>>]
       ELSE [error |-> NoError, value |-> values[1]]

\* Variant: only the first character is looked at.
validate_identifier_first_character(value, label, path) ==
    IF value # <<>> /\ value[1] \in Alpha THEN NoError
    ELSE ParseFailure("InvalidIdentifier", label, path, value)

validate_identifier(value, label, path) ==
    IF IDENTIFIER_RE(value) THEN NoError
    ELSE ParseFailure("InvalidIdentifier", label, path, value)

validate_asset_reference(value, path) ==
    LET parts == split(value, ".")
    IN IF Len(parts) # 2
       THEN ParseFailure("InvalidDependency", <<>>, path, value)
       ELSE LET schema == validate_identifier(parts[1], <<"s", "c", "h", "e", "m", "a">>, path)
            IN IF schema # NoError THEN schema
               ELSE validate_identifier(parts[2], <<"t", "a", "b", "l", "e">>, path)

\* Variant: the empty parts are kept, so that they are validated too.
Tokens_with_empty(raw) ==
    LET parts == split(raw, ",")
    IN [i \in DOMAIN parts |-> strip(parts[i])]

\* The tokens of one value of the depends key that reach validation.
Tokens(raw) ==
    LET parts == split(raw, ",")
    IN SelectSeq([i \in DOMAIN parts |-> strip(parts[i])], LAMBDA part : part # <<>>)

\* The inner loop of parse_dependencies from the j-th token on.
RECURSIVE validate_from(_, _, _, _)
validate_from(tokens, path, j, deps) ==
    IF j > Len(tokens) THEN [error |-> NoError, deps |-> deps]
    ELSE LET checked == validate_asset_reference(tokens[j], path)
         IN IF checked # NoError THEN [error |-> checked, deps |-> <<>>]
            ELSE validate_from(tokens, path, j + 1, Append(deps, tokens[j]))

\* The outer loop of parse_dependencies from the i-th value on.
RECURSIVE dependencies_of(_, _, _, _)
dependencies_of(values, path, i, deps) ==
    IF i > Len(values) THEN [error |-> NoError, deps |-> deps]
    ELSE LET inner == validate_from(Tokens(values[i]), path, 1, deps)
         IN IF inner.error # NoError THEN inner
            ELSE dependencies_of(values, path, i + 1, inner.deps)

parse_dependencies(values, path) == dependencies_of(values, path, 1, <<>>)

NoMetadata == [error |-> NoError, schema |-> <<>>, table |-> <<>>, depends |-> <<>>]

parse_dataset_metadata(path, kind, source) ==
    LET lines == extract_metadata_lines(source, COMMENT_PREFIXES[kind])
        parsed == parse_metadata_lines(lines, path)
        schema == single_metadata_value(parsed.metadata, <<"s", "c", "h", "e", "m", "a">>, path)
        table == single_metadata_value(parsed.metadata, <<"n", "a", "m", "e">>, path)
        valid_schema == validate_identifier(schema.value, <<"s", "c", "h", "e", "m", "a">>, path)
        valid_table == validate_identifier(table.value, <<"t", "a", "b", "l", "e">>, path)
        depends == parse_dependencies(Values(parsed.metadata, <<"d", "e", "p", "e", "n", "d", "s">>), path)
    IN IF lines = <<>>
       THEN [NoMetadata EXCEPT !.error = ParseFailure("MissingMetadata", <<>>, path, <<>>)]
       ELSE IF parsed.error # NoError THEN [NoMetadata EXCEPT !.error = parsed.error]
       ELSE IF schema.error # NoError THEN [NoMetadata EXCEPT !.error = schema.error]
       ELSE IF table.error # NoError THEN [NoMetadata EXCEPT !.error = table.error]
       ELSE IF valid_schema # NoError THEN [NoMetadata EXCEPT !.error = valid_schema]
       ELSE IF valid_table # NoError THEN [NoMetadata EXCEPT !.error = valid_table]
       ELSE IF depends.error # NoError THEN [NoMetadata EXCEPT !.error = depends.error]
       ELSE [error |-> NoError, schema |-> schema.value, table |-> table.value,
             depends |-> depends.deps]

\* asset_from_path on a file whose text is given.
asset_from_source(path, suffix, source) ==
    LET kind == ASSET_SUFFIXES[suffix]
        parsed == parse_dataset_metadata(path, kind, source)
    IN IF parsed.error # NoError THEN [error |-> parsed.error, asset |-> <<>>]
       ELSE [error |-> NoError,
             asset |-> [name |-> parsed.schema \o <<".">> \o parsed.table,
                        schema |-> parsed.schema, table |-> parsed.table,
                        path |-> path, kind |-> kind, source |-> source,
                        depends |-> parsed.depends]]

(***************************************************************************)
(* The database, at the interface the engine uses: the schemas that exist  *)
(* and, per qualified name, whether the table is absent, holds what it     *)
(* held before the run ("old") or holds what this run wrote ("fresh").     *)
(* Every operation appends the statements it sends to `journal`.           *)
(***************************************************************************)
\* The database the run starts on: the tables of the even names exist, with
\* their schemas; those of the odd names do not.
InitialDb ==
    [schemas |-> {SchemaOf(n) : n \in {n \in Names : n % 2 = 0}},
     tables |-> [n \in Names |-> IF n % 2 = 0 THEN "old" ELSE "absent"]]

create_schema(db, asset) == [db EXCEPT !.schemas = @ \cup {asset.schema}]

\* Variant: create table if not exists, an existing table keeps what it holds.
create_table_if_not_exists(db, asset) ==
    [db EXCEPT !.tables[asset.name] = IF @ = "absent" THEN "fresh" ELSE @]

create_or_replace_table(db, asset) ==
    [db EXCEPT !.tables = (asset.name :> "fresh") @@ @]

Statements(asset, ops) == [i \in 1..Len(ops) |-> <<ops[i], asset.name>>]

\* What source.strip() gives for the files whose text is not modelled: a
\* discovered file holds a metadata line, so it is not blank.
SomeText == <<<<"-", "-">>>>

\* materialize_sql: `sql` is asset.source.strip(), `query_ok` whether the
\* database accepts the create-table statement built from it.
materialize_sql(asset, sql, db, query_ok) ==
    IF sql = <<>>
    THEN [error |-> Raise("ValueError", <<>>, <<asset.path>>), db |-> db,
          journal |-> <<>>]
    ELSE IF query_ok
    THEN [error |-> NoError,
          db |-> create_or_replace_table(create_schema(db, asset), asset),
          journal |-> Statements(asset, <<"connect", "create_schema", "create_table", "close">>)]
    ELSE [error |-> Raise("DatabaseError", <<>>, <<>>),
          db |-> create_schema(db, asset),
          journal |-> Statements(asset, <<"connect", "create_schema", "close">>)]

write_frame(asset, db) ==
    [error |-> NoError,
     db |-> create_or_replace_table(create_schema(db, asset), asset),
     journal |-> Statements(asset, <<"connect", "create_schema", "create_table", "close">>)]

\* What loading and calling a callable-transform file may give: no attribute
\* of the table's name, an attribute that is not callable, a callable that
\* raises, one that returns something else than a DataFrame, one that returns
\* a DataFrame.
PythonOutcomes == {"no_callable", "not_callable", "raises", "wrong_type", "frame"}

\* Variant: the schema is created before the module is loaded, as
\* materialize_bash does.
materialize_python_schema_first(asset, db, outcome) ==
    LET ensured == create_schema(db, asset)
        first == Statements(asset, <<"connect", "create_schema", "close", "load_module">>)
    IN IF outcome \in {"no_callable", "not_callable"}
       THEN [error |-> Raise("ValueError", <<>>, <<asset.path>>), db |-> ensured,
             journal |-> first]
       ELSE IF outcome = "raises"
       THEN [error |-> Raise("CallableError", <<>>, <<>>), db |-> ensured,
             journal |-> first \o Statements(asset, <<"call">>)]
       ELSE IF outcome = "wrong_type"
       THEN [error |-> Raise("TypeError", <<>>, <<>>), db |-> ensured,
             journal |-> first \o Statements(asset, <<"call">>)]
       ELSE [error |-> NoError, db |-> create_or_replace_table(ensured, asset),
             journal |-> first
                 \o Statements(asset, <<"call", "connect", "create_table", "close">>)]

\* materialize_python: what the loaded module holds under the table's name and
\* what calling it gives.
materialize_python(asset, db, outcome) ==
    IF outcome \in {"no_callable", "not_callable"}
    THEN [error |-> Raise("ValueError", <<>>, <<asset.path>>), db |-> db,
          journal |-> Statements(asset, <<"load_module">>)]
    ELSE IF outcome = "raises"
    THEN [error |-> Raise("CallableError", <<>>, <<>>), db |-> db,
          journal |-> Statements(asset, <<"load_module", "call">>)]
    ELSE IF outcome = "wrong_type"
    THEN [error |-> Raise("TypeError", <<>>, <<>>), db |-> db,
          journal |-> Statements(asset, <<"load_module", "call">>)]
    ELSE LET written == write_frame(asset, db)
         IN [written EXCEPT
                !.journal = Statements(asset, <<"load_module", "call">>) \o @]

\* Variant: the existence of the table is not looked at.
ensure_table_exists_unchecked(asset, db) == NoError

\* ensure_table_exists, on the database the script left.
ensure_table_exists(asset, db) ==
    IF db.tables[asset.name] = "absent"
    THEN Raise("ValueError", <<asset.name>>, <<asset.path>>)
    ELSE NoError

\* Variant: one connection is held from the schema creation to the existence
\* check, the script running in between.
materialize_bash_one_connection(asset, db, status, creates) ==
    LET ensured == create_schema(db, asset)
        left == IF creates THEN create_or_replace_table(ensured, asset) ELSE ensured
        launch == Statements(asset, <<"connect", "create_schema", "run_script">>)
    IN IF status # 0
       THEN [error |-> Raise("CalledProcessError", <<>>, <<asset.path>>),
             db |-> left,
             journal |-> launch \o Statements(asset, <<"exit_nonzero", "close">>)]
       ELSE [error |-> ensure_table_exists(asset, left), db |-> left,
             journal |-> launch
                 \o Statements(asset, <<"exit_zero", "select_table", "close">>)]

\* materialize_bash: the script exits with `status` and has or has not
\* created its table.
materialize_bash(asset, db, status, creates) ==
    LET ensured == create_schema(db, asset)
        left == IF creates THEN create_or_replace_table(ensured, asset) ELSE ensured
        launch == Statements(asset, <<"connect", "create_schema", "close", "run_script">>)
    IN IF status # 0
       THEN [error |-> Raise("CalledProcessError", <<>>, <<asset.path>>),
             db |-> left,
             journal |-> launch \o Statements(asset, <<"exit_nonzero">>)]
       ELSE [error |-> ensure_table_exists(asset, left), db |-> left,
             journal |-> launch
                 \o Statements(asset, <<"exit_zero", "connect", "select_table", "close">>)]

(***************************************************************************)
(* One call of materialize().                                              *)
(***************************************************************************)
VARIABLES
    root_found,   \* whether find_datasets_root finds a datasets directory
    tree,         \* the files under it, in sorted path order
    db_before,    \* the database when materialize() is called
    db,           \* the database
    journal,      \* the statements sent and processes launched so far
    pc,           \* the stage materialize() is at
    assets,       \* discover_assets' result
    deps_map,     \* asset_dependencies' result
    names,        \* resolve_selection's argument names
    all_assets,   \* resolve_selection's argument all_assets
    selected,     \* resolve_selection's result
    order,        \* list(TopologicalSorter(graph).static_order())
    started,      \* the assets whose materializer was called, in call order
    materialized, \* the assets whose materializer returned, in return order
    error,        \* the exception materialize() raised, or NoError
    listing,      \* the entries of the datasets directory, when the walk is modelled
    file,         \* the file asset_from_path reads, when its text is modelled
    made,         \* what asset_from_path made of that file
    pushes        \* the names resolve_selection's loop appended to its stack

vars == <<root_found, tree, db_before, db, journal, pc, assets, deps_map, names,
          all_assets, selected, order, started, materialized, error, listing,
          file, made, pushes>>

\* The variables one call of materialize() on a given tree leaves alone.
outside == <<listing, file, made>>

\* The values of names a call in explicit mode is given: None, a collection of
\* up to MaxRequested names, an iterator over no name or over one.
Requests ==
    {None}
        \cup {Collection(S) : S \in {S \in SUBSET Names : Cardinality(S) <= MaxRequested}}
        \cup {Iterator({})} \cup {Iterator({n}) : n \in Names}

\* The values of names a call with all_assets is given: None, nothing, one
\* name, every name.
RequestsWithAll ==
    {None, Collection({}), Iterator({}), Collection(Names)}
        \cup {Collection({n}) : n \in Names}

Init ==
    /\ root_found \in BOOLEAN
    /\ tree \in Trees
    /\ root_found \/ tree = <<>>
    /\ db = InitialDb
    /\ db_before = db
    /\ journal = <<>>
    /\ pc = "discover"
    /\ assets = <<>>
    /\ deps_map = <<>>
    /\ names = None
    /\ all_assets = FALSE
    /\ selected = {}
    /\ order = <<>>
    /\ started = <<>>
    /\ materialized = <<>>
    /\ error = NoError
    /\ listing = <<>>
    /\ file = <<>>
    /\ made = <<>>
    /\ pushes = 0

\* materialize() raises `e`: nothing runs after it.
Fail(e) ==
    /\ pc' = "failed"
    /\ error' = e

\* Variant: discovery creates the schema of every asset it finds.
DiscoverAssets_creating_schemas ==
    /\ pc = "discover"
    /\ LET found == discover_assets(tree)
       IN IF ~root_found
          THEN Fail(Raise("FileNotFoundError", <<>>, <<>>)) /\ UNCHANGED <<assets, db>>
          ELSE /\ db' = [db EXCEPT !.schemas =
                            @ \cup {SchemaOf(tree[i].name) :
                                       i \in {i \in DOMAIN tree : tree[i].parsed}}]
               /\ IF found.error # NoError
                  THEN Fail(found.error) /\ UNCHANGED assets
                  ELSE pc' = "validate" /\ assets' = found.assets /\ UNCHANGED error
    /\ UNCHANGED <<root_found, tree, db_before, journal, deps_map, names,
                   all_assets, selected, order, started, materialized, outside, pushes>>

\* materialize, lines 47-48.
DiscoverAssets ==
    /\ pc = "discover"
    /\ LET found == discover_assets(tree)
       IN IF ~root_found
          THEN Fail(Raise("FileNotFoundError", <<>>, <<>>)) /\ UNCHANGED assets
          ELSE IF found.error # NoError
          THEN Fail(found.error) /\ UNCHANGED assets
          ELSE pc' = "validate" /\ assets' = found.assets /\ UNCHANGED error
    /\ UNCHANGED <<root_found, tree, db_before, db, journal, deps_map, names,
                   all_assets, selected, order, started, materialized, outside, pushes>>

\* materialize, line 49.
AssetDependencies ==
    /\ pc = "validate"
    /\ LET built == asset_dependencies(assets)
       IN IF built.error # NoError
          THEN Fail(built.error) /\ UNCHANGED deps_map
          ELSE pc' = "select" /\ deps_map' = built.deps_map /\ UNCHANGED error
    /\ UNCHANGED <<root_found, tree, db_before, db, journal, assets, names,
                   all_assets, selected, order, started, materialized, outside, pushes>>

\* materialize, line 50: resolve_selection is called with `request` and `flag`.
Select(request, flag) ==
    /\ names' = request
    /\ all_assets' = flag
    /\ LET start == InitialSelection(request, flag, assets)
       IN \E stack \in IterationOrders(start.selected) :
             LET resolved == resolve_selection(request, flag, assets,
                                               deps_map, stack)
             IN IF resolved.error # NoError
                THEN Fail(resolved.error) /\ UNCHANGED <<selected, pushes>>
                ELSE /\ pc' = "order"
                     /\ selected' = resolved.selected
                     /\ pushes' = resolved.pushes
                     /\ UNCHANGED error
    /\ UNCHANGED <<root_found, tree, db_before, db, journal, assets, deps_map,
                   order, started, materialized, outside>>

\* materialize() called through the package API, with any request.
ResolveSelection ==
    /\ pc = "select"
    /\ \E flag \in BOOLEAN : \E request \in (IF flag THEN RequestsWithAll ELSE Requests) :
          Select(request, flag)

\* materialize() called by the command line: _materialize passes the list
\* argparse collected for ASSET (nargs="*", so possibly empty) and nothing else.
CliMaterialize ==
    /\ pc = "select"
    /\ \E args_assets \in {S \in SUBSET Names : Cardinality(S) <= MaxRequested} :
          Select(Collection(args_assets), FALSE)

\* materialize, lines 51-55.
TopologicalOrder ==
    /\ pc = "order"
    /\ LET cycles == find_cycle(selected, deps_map)
       IN IF cycles # {}
          THEN /\ \E cycle \in cycles : Fail(Raise("CycleError", cycle, <<>>))
               /\ UNCHANGED order
          ELSE /\ \E iteration \in IterationOrders(selected) :
                      order' = static_order(iteration, deps_map)
               /\ pc' = "execute"
               /\ UNCHANGED error
    /\ UNCHANGED <<root_found, tree, db_before, db, journal, assets, deps_map,
                   names, all_assets, selected, started, materialized, outside, pushes>>

\* The asset the loop of lines 56-64 is at.
Current == Lookup(assets, order[Len(started) + 1])

\* Variant: a failing materializer is recorded and the loop goes on.
Dispatch_continuing(asset, result) ==
    /\ started' = Append(started, asset.name)
    /\ db' = result.db
    /\ journal' = journal \o result.journal
    /\ IF result.error # NoError
       THEN error' = result.error /\ UNCHANGED <<pc, materialized>>
       ELSE /\ materialized' = Append(materialized, asset.name)
            /\ UNCHANGED <<pc, error>>
    /\ UNCHANGED <<root_found, tree, db_before, assets, deps_map, names,
                   all_assets, selected, order, outside, pushes>>

\* One iteration of the loop: the materializer returned `result`.
Dispatch(asset, result) ==
    /\ started' = Append(started, asset.name)
    /\ db' = result.db
    /\ journal' = journal \o result.journal
    /\ IF result.error # NoError
       THEN Fail(result.error) /\ UNCHANGED materialized
       ELSE /\ materialized' = Append(materialized, asset.name)
            /\ UNCHANGED <<pc, error>>
    /\ UNCHANGED <<root_found, tree, db_before, assets, deps_map, names,
                   all_assets, selected, order, outside, pushes>>

\* materialize, lines 58-60.
MaterializeSql ==
    /\ pc = "execute"
    /\ Len(started) < Len(order)
    /\ Current.kind = "sql"
    /\ \E query_ok \in BOOLEAN :
          Dispatch(Current, materialize_sql(Current, SomeText, db, query_ok))

\* materialize, lines 61-63.
MaterializePython ==
    /\ pc = "execute"
    /\ Len(started) < Len(order)
    /\ Current.kind = "python"
    /\ \E outcome \in PythonOutcomes :
          Dispatch(Current, materialize_python(Current, db, outcome))

\* materialize, line 64.
MaterializeBash ==
    /\ pc = "execute"
    /\ Len(started) < Len(order)
    /\ Current.kind = "bash"
    /\ \E status \in {0, 1}, creates \in BOOLEAN :
          Dispatch(Current, materialize_bash(Current, db, status, creates))

\* The loop is over: materialize() returns.
Return ==
    /\ pc = "execute"
    /\ Len(started) = Len(order)
    /\ pc' = "done"
    /\ UNCHANGED <<root_found, tree, db_before, db, journal, assets, deps_map,
                   names, all_assets, selected, order, started, materialized,
                   error, outside, pushes>>

Next ==
    \/ DiscoverAssets
    \/ AssetDependencies
    \/ ResolveSelection
    \/ TopologicalOrder
    \/ MaterializeSql
    \/ MaterializePython
    \/ MaterializeBash
    \/ Return

Spec == Init /\ [][Next]_vars

\* The run the command `bdp materialize [ASSET ...]` makes.
CliNext ==
    \/ DiscoverAssets
    \/ AssetDependencies
    \/ CliMaterialize
    \/ TopologicalOrder
    \/ MaterializeSql
    \/ MaterializePython
    \/ MaterializeBash
    \/ Return

CliSpec == Init /\ [][CliNext]_vars

(***************************************************************************)
(* One file: asset_from_path on its text, then, for a declarative query,   *)
(* materialize_sql on the asset, on an empty database.                     *)
(***************************************************************************)
\* The lines a file is made of, for the comment prefix of its kind: metadata
\* lines with good and bad keys and values, a comment without the marker, a
\* marker line without "=", a blank line, a line of code, an empty comment, an
\* indented metadata line, a dependency line with an empty token.
Lines(prefix) ==
    {prefix \o <<" ", "d", "a", "t", "a", "s", "e", "t", ".", "n", "a", "m", "e", " ", "=", " ", "t", "_", "1">>,
     prefix \o <<"d", "a", "t", "a", "s", "e", "t", ".", "s", "c", "h", "e", "m", "a", "=", "s">>,
     prefix \o <<" ", "d", "a", "t", "a", "s", "e", "t", ".", "n", "a", "m", "e", " ", "=">>,
     prefix \o <<" ", "d", "a", "t", "a", "s", "e", "t", ".", "s", "c", "h", "e", "m", "a", " ", "=", " ", "1", "s">>,
     prefix \o <<" ", "d", "a", "t", "a", "s", "e", "t", ".", "d", "e", "p", "e", "n", "d", "s", " ", "=", " ", "s", ".", "u", ",", " ", "s", ".", "v">>,
     prefix \o <<" ", "d", "a", "t", "a", "s", "e", "t", ".", "d", "e", "p", "e", "n", "d", "s", " ", "=", " ", "s", "u">>,
     prefix \o <<" ", "d", "a", "t", "a", "s", "e", "t", ".", "d", "e", "p", "e", "n", "d", "s", " ", "=", " ", "s", ".", "v", ",", " ", ",", "s", ".", "u">>,
     prefix \o <<" ", "n", "o", "t", "e">>,
     prefix \o <<" ", "d", "a", "t", "a", "s", "e", "t", ".", "n", "a", "m", "e", " ", "t">>,
     <<>>,
     <<"s", "e", "l", "e", "c", "t", " ", "1">>,
     prefix,
     <<" ", " ">> \o prefix \o <<" ", "d", "a", "t", "a", "s", "e", "t", ".", "n", "a", "m", "e", " ", "=", " ", "t", ".", "u">>}

EmptyDb == [schemas |-> {}, tables |-> <<>>]

FileInit ==
    /\ \E suffix \in DOMAIN ASSET_SUFFIXES : \E k \in 0..MaxLines :
          \E source \in [1..k -> Lines(COMMENT_PREFIXES[ASSET_SUFFIXES[suffix]])] :
             file = [path |-> 1, suffix |-> suffix, source |-> source]
    /\ made = <<>>
    /\ pushes = 0
    /\ root_found = TRUE
    /\ tree = <<>>
    /\ listing = <<>>
    /\ db = EmptyDb
    /\ db_before = db
    /\ journal = <<>>
    /\ pc = "read"
    /\ assets = <<>>
    /\ deps_map = <<>>
    /\ names = None
    /\ all_assets = FALSE
    /\ selected = {}
    /\ order = <<>>
    /\ started = <<>>
    /\ materialized = <<>>
    /\ error = NoError

\* discover_assets, line 70.
AssetFromPath ==
    /\ pc = "read"
    /\ made' = asset_from_source(file.path, file.suffix, file.source)
    /\ IF made'.error # NoError THEN Fail(made'.error)
       ELSE pc' = "built" /\ UNCHANGED error
    /\ UNCHANGED <<root_found, tree, db_before, db, journal, assets, deps_map,
                   names, all_assets, selected, order, started, materialized,
                   listing, file, pushes>>

\* Whether the text holds anything but blank lines and comments, that is,
\* whether the statement materialize_sql builds holds a query at all.
HasQuery(source) ==
    \E i \in DOMAIN source :
        /\ lstrip(source[i]) # <<>>
        /\ ~startswith(lstrip(source[i]), COMMENT_PREFIXES["sql"])

\* materialize, lines 58-60, for the asset of the file: the database rejects a
\* create-table statement that holds no query.
MaterializeSqlFile ==
    /\ pc = "built"
    /\ started = <<>>
    /\ made.asset.kind = "sql"
    /\ \E query_ok \in (IF HasQuery(file.source) THEN BOOLEAN ELSE {FALSE}) :
          Dispatch(made.asset,
                   materialize_sql(made.asset, strip_source(made.asset.source),
                                   db, query_ok))

FileNext ==
    \/ AssetFromPath
    \/ MaterializeSqlFile

FileSpec == FileInit /\ [][FileNext]_vars

(***************************************************************************)
(* Discovery from the directory walk on: asset_files, then the loop of     *)
(* discover_assets, then asset_dependencies.                               *)
(***************************************************************************)
DiscoveryInit ==
    /\ \E k \in 0..MaxEntries : \E choices \in [1..k -> EntryChoices] :
          listing = Listing(choices)
    /\ root_found = TRUE
    /\ tree = <<>>
    /\ db = InitialDb
    /\ db_before = db
    /\ journal = <<>>
    /\ pc = "walk"
    /\ assets = <<>>
    /\ deps_map = <<>>
    /\ names = None
    /\ all_assets = FALSE
    /\ selected = {}
    /\ order = <<>>
    /\ started = <<>>
    /\ materialized = <<>>
    /\ error = NoError
    /\ file = <<>>
    /\ made = <<>>
    /\ pushes = 0

\* discover_assets, line 69: rglob yields the entries in any order.
AssetFiles ==
    /\ pc = "walk"
    /\ \E yielded \in IterationOrders(DOMAIN listing) :
          tree' = asset_files([i \in DOMAIN listing |-> listing[yielded[i]]])
    /\ pc' = "discover"
    /\ UNCHANGED <<root_found, db_before, db, journal, assets, deps_map, names,
                   all_assets, selected, order, started, materialized, error,
                   listing, file, made, pushes>>

DiscoveryNext ==
    \/ AssetFiles
    \/ DiscoverAssets
    \/ AssetDependencies

DiscoverySpec == DiscoveryInit /\ [][DiscoveryNext]_vars

(***************************************************************************)
(* Properties.                                                             *)
(***************************************************************************)
DiscoveryErrors == {"FileNotFoundError", "ParseError", "DuplicateAssetName"}

GraphErrors == {"SelfDependency", "UnknownDependency"}

SelectionErrors == {"NoSelection", "UnknownAssets"}

\* discover_assets has returned.
Discovered == pc \notin {"walk", "discover"} /\ error.type \notin DiscoveryErrors

\* asset_dependencies has returned.
Validated == Discovered /\ pc # "validate" /\ error.type \notin GraphErrors

\* resolve_selection has been called, and has returned or raised.
SelectionCalled == Validated /\ pc # "select"

\* resolve_selection has returned.
Resolved == SelectionCalled /\ error.type \notin SelectionErrors

\* The execution order has been computed.
Ordered == Resolved /\ pc # "order" /\ error.type # "CycleError"

\* The dependencies a discovered asset declares in its file.
Declared(name) == Range(Lookup(assets, name).depends)

IsPrefix(s, t) == Len(s) <= Len(t) /\ \A i \in DOMAIN s : s[i] = t[i]

\* C1: the execution order holds each selected asset exactly once and nothing
\* else, every asset comes after all the dependencies it declares, and every
\* asset whose materializer was called had all its dependencies materialized
\* earlier in the run.
C1_OrderRespectsDependencies ==
    Ordered =>
        /\ Range(order) = selected
        /\ Len(order) = Cardinality(selected)
        /\ \A i \in DOMAIN order : \A d \in Declared(order[i]) :
               \E j \in 1..(i - 1) : order[j] = d
        /\ \A i \in DOMAIN started : \A d \in Declared(started[i]) :
               \E j \in 1..(i - 1) : j <= Len(materialized) /\ materialized[j] = d

C1_Witness ==
    /\ pc = "done"
    /\ Len(materialized) = 3
    /\ Declared(order[3]) # {}
    /\ Declared(order[2]) # {}

\* C2: the execution order is the same in every run on the same assets and
\* request: whatever order the selected set iterates in, the order is the one
\* the run computed.
C2_SameOrderInEveryRun ==
    Ordered =>
        \A iteration \in IterationOrders(selected) :
            static_order(iteration, deps_map) = order

\* C3: in explicit mode the selection is the least set of discovered assets
\* that holds the requested names and, with an asset, every dependency the
\* asset declares.
ClosedUnderDependencies(S) == \A n \in S : Declared(n) \subseteq S

C3_SelectionIsClosure ==
    (Resolved /\ ~all_assets) =>
        /\ names.items \subseteq selected
        /\ ClosedUnderDependencies(selected)
        /\ \A S \in SUBSET keys(assets) :
               (names.items \subseteq S /\ ClosedUnderDependencies(S))
                   => selected \subseteq S

C3_Witness ==
    /\ Resolved
    /\ ~all_assets
    /\ Cardinality(names.items) = 1
    /\ Cardinality(selected) = 3
    /\ \E n \in selected : n \notin names.items /\ \A r \in names.items : n \notin Declared(r)

\* C4, as claimed: whenever the request names an asset that was not discovered,
\* resolve_selection raises one error listing every unknown name and nothing is
\* materialized.
C4_UnknownNamesAlwaysFail ==
    (SelectionCalled /\ names.items \ keys(assets) # {}) =>
        /\ pc = "failed"
        /\ error = Raise("UnknownAssets", sorted(names.items \ keys(assets)), <<>>)
        /\ started = <<>>
        /\ journal = <<>>

\* C4, amended: with all_assets false, a request that names an asset that was
\* not discovered makes resolve_selection raise one error listing every unknown
\* name, in sorted order, and nothing is materialized.
C4_UnknownNamesFailInExplicitMode ==
    (SelectionCalled /\ ~all_assets /\ names.items \ keys(assets) # {}) =>
        /\ pc = "failed"
        /\ error = Raise("UnknownAssets", sorted(names.items \ keys(assets)), <<>>)
        /\ started = <<>>
        /\ journal = <<>>
        /\ db = db_before

C4_Witness ==
    /\ pc = "failed"
    /\ error.type = "UnknownAssets"
    /\ Len(error.names) = 2
    /\ assets # <<>>

\* C5: once selection has succeeded, materialize() raises the cycle error
\* exactly when some selected assets depend on each other in a circle; the
\* error is raised with the database untouched and names assets of a cycle.
HasCycle(S) ==
    \E C \in (SUBSET S) \ {{}} : \A n \in C : Declared(n) \cap C # {}

\* n depends on itself through a chain of declared dependencies.
OnDependencyCycle(n) ==
    \E k \in 1..Cardinality(selected) : \E w \in [1..(k + 1) -> selected] :
        /\ w[1] = n
        /\ w[k + 1] = n
        /\ \A i \in 1..k : w[i + 1] \in Declared(w[i])

C5_CycleErrorIffCycle ==
    (Resolved /\ pc # "order") =>
        /\ error.type = "CycleError" <=> HasCycle(selected)
        /\ error.type = "CycleError" =>
               /\ pc = "failed"
               /\ journal = <<>>
               /\ db = db_before
               /\ started = <<>>
               /\ error.names # <<>>
               /\ \A n \in Range(error.names) : OnDependencyCycle(n)

C5_Witness ==
    /\ error.type = "CycleError"
    /\ ~all_assets
    /\ \E n \in Range(error.names) : n \notin names.items

\* C6: asset_dependencies raises exactly when some discovered asset declares
\* itself or a name that was not discovered; the error holds the asset (its
\* name or its path) and the reference; it is raised before resolve_selection
\* is called.  When it returns, deps_map gives every discovered asset the
\* strictly ascending list of the names it declares, all discovered and none
\* the asset itself.
BadDeclarations ==
    {<<i, d>> \in (DOMAIN assets) \X Names :
        /\ d \in Range(assets[i].depends)
        /\ d = assets[i].name \/ d \notin keys(assets)}

C6_GraphValidation ==
    (Discovered /\ pc # "validate") =>
        /\ error.type \in GraphErrors <=> BadDeclarations # {}
        /\ error.type \in GraphErrors =>
               /\ pc = "failed"
               /\ names = None
               /\ selected = {}
               /\ journal = <<>>
        /\ error.type = "SelfDependency" =>
               \E b \in BadDeclarations :
                   /\ b[2] = assets[b[1]].name
                   /\ error.names = <<b[2]>>
        /\ error.type = "UnknownDependency" =>
               \E b \in BadDeclarations :
                   /\ b[2] \notin keys(assets)
                   /\ error.names = <<b[2]>>
                   /\ error.paths = <<assets[b[1]].path>>
        /\ error.type \notin GraphErrors =>
               /\ DOMAIN deps_map = keys(assets)
               /\ \A n \in keys(assets) :
                      /\ Range(deps_map[n]) = Declared(n)
                      /\ \A i \in 1..(Len(deps_map[n]) - 1) :
                             deps_map[n][i] < deps_map[n][i + 1]
                      /\ Range(deps_map[n]) \subseteq keys(assets) \ {n}

C6_Witness ==
    /\ Validated
    /\ \E i \in DOMAIN assets :
           /\ Len(assets[i].depends) = 2
           /\ assets[i].depends[1] > assets[i].depends[2]

\* C7: in every step the materialized assets and the assets whose materializer
\* was called are prefixes of the execution order, at most one asset apart; once
\* an error is raised no materializer is called and the database is not
\* written; and the table of a materialized asset exists and is never changed
\* by a later step.
C7_FailFastNoRollback ==
    [][/\ IsPrefix(materialized', order')
       /\ IsPrefix(started', order')
       /\ IsPrefix(materialized', started')
       /\ Len(started') <= Len(materialized') + 1
       /\ error'.type # "none" => pc' = "failed"
       /\ error.type # "none" => started' = started /\ db' = db
       /\ \A n \in Range(materialized) :
              /\ n \in Range(materialized')
              /\ db'.tables[n] = db.tables[n]
       /\ \A n \in Range(materialized') : db'.tables[n] # "absent"]_vars

C7_Witness ==
    /\ pc = "failed"
    /\ Len(materialized) = 2
    /\ Len(order) = 3
    /\ Len(started) = 3
    /\ \A n \in Range(materialized) : db.tables[n] = "fresh"

\* C8: until the execution order is computed, and after any error of discovery,
\* graph validation, selection or ordering, nothing was sent to the database,
\* no script was launched and the database is as it was before the run.
C8_NoSideEffectBeforeExecution ==
    ~Ordered =>
        /\ journal = <<>>
        /\ db = db_before
        /\ started = <<>>

C8_Witness ==
    /\ pc = "failed"
    /\ error.type = "CycleError"
    /\ db = db_before
    /\ \E n \in selected : db.tables[n] = "old"

\* C9: with all_assets true, resolve_selection raises nothing and returns the
\* set of all discovered assets, whatever names holds.
C9_AllSelectsEverything ==
    (SelectionCalled /\ all_assets) =>
        /\ error.type \notin SelectionErrors
        /\ selected = keys(assets)

C9_Witness ==
    /\ SelectionCalled
    /\ all_assets
    /\ pc = "done"
    /\ names.items \ keys(assets) # {}
    /\ names.items \cap keys(assets) # {}
    /\ Len(materialized) = 2

\* C10: with all_assets false and no requested name (names absent or empty),
\* materialize() raises the usage error and materializes nothing.
C10_NoNamesIsUsageError ==
    (SelectionCalled /\ ~all_assets /\ names.items = {}) =>
        /\ pc = "failed"
        /\ error.type = "NoSelection"
        /\ started = <<>>

\* C11: the command line's materialize command, given no asset name, selects
\* every discovered asset and, when the run ends, has materialized them all.
C11_CliDefaultsToAll ==
    (SelectionCalled /\ names.items = {}) =>
        /\ error.type # "NoSelection"
        /\ selected = keys(assets)
        /\ pc = "done" => Range(materialized) = keys(assets)

\* C12, as claimed: if some discovered assets depend on each other in a circle,
\* selected or not, no asset is materialized and no table is written.
C12_CycleAnywhereFails ==
    (Discovered /\ HasCycle(keys(assets))) =>
        /\ materialized = <<>>
        /\ db.tables = db_before.tables

\* C12, amended: a self-reference or an unknown reference anywhere among the
\* discovered assets stops the run at graph validation, and a circle among the
\* assets of the closed selection stops it at ordering, both with nothing sent
\* to the database; a circle among assets outside the closed selection raises
\* no cycle error.
C12_CycleInSelectionFails ==
    Discovered =>
        /\ BadDeclarations # {} =>
               /\ pc \in {"validate", "failed"}
               /\ pc = "failed" => error.type \in GraphErrors
               /\ journal = <<>>
               /\ db = db_before
        /\ (Resolved /\ HasCycle(selected)) =>
               /\ pc \in {"order", "failed"}
               /\ pc = "failed" => error.type = "CycleError"
               /\ journal = <<>>
               /\ db = db_before
        /\ (Resolved /\ ~HasCycle(selected)) => error.type # "CycleError"

C12_Witness ==
    /\ pc = "done"
    /\ HasCycle(keys(assets))
    /\ ~HasCycle(selected)
    /\ \E n \in Range(materialized) : db.tables[n] = "fresh" /\ db_before.tables[n] # "fresh"

\* C13: discover_assets raises the duplicate-name error only when two eligible
\* files resolve to one qualified name, and always when they do and every
\* eligible file parses; it raises it before asset_dependencies is called and
\* before anything is executed.  When it returns, the mapping holds one asset
\* per eligible file and no other, under that file's name, path and kind, in
\* path order, whatever order the directory walk yielded the entries in.
Eligible ==
    {e \in Range(listing) :
        e.is_file /\ ~e.underscore /\ ~e.pycache /\ e.suffix \in {".py", ".sql", ".sh"}}

SameName(e, f) == e.path # f.path /\ e.parsed /\ f.parsed /\ e.name = f.name

Rematerialized(asset, on) ==
    IF asset.kind = "sql" THEN materialize_sql(asset, SomeText, on, TRUE)
    ELSE materialize_python(asset, on, "frame")

C14_ReplacementIsIdempotent ==
    \A i \in DOMAIN materialized :
        LET asset == Lookup(assets, materialized[i])
        IN asset.kind \in {"sql", "python"} =>
               /\ db.tables[asset.name] = "fresh"
               /\ asset.schema \in db.schemas
               /\ Rematerialized(asset, db).error = NoError
               /\ Rematerialized(asset, db).db = db
               /\ \A held \in {"absent", "old", "fresh"} :
                      Rematerialized(asset, [db EXCEPT !.tables[asset.name] = held]).db = db

C14_Witness ==
    /\ pc = "done"
    /\ Len(materialized) = 2
    /\ \E i \in DOMAIN materialized :
           /\ Lookup(assets, materialized[i]).kind \in {"sql", "python"}
           /\ db_before.tables[materialized[i]] = "old"
           /\ db.tables[materialized[i]] = "fresh"

\* C15: for every external-script asset the run has dispatched, the schema was
\* created before the script was launched; the materializer returned exactly
\* when the script exited with status 0 and its table exists; a non-zero exit
\* raised the process error without the table being looked for; an exit of 0
\* with the table absent raised the missing-table error.
Position(event) == CHOOSE p \in DOMAIN journal : journal[p] = event

Sent(event) == event \in Range(journal)

C15_ScriptContract ==
    \A i \in DOMAIN started :
        LET n == started[i]
            asset == Lookup(assets, n)
        IN asset.kind = "bash" =>
               /\ Sent(<<"create_schema", n>>) /\ Sent(<<"run_script", n>>)
               /\ Position(<<"create_schema", n>>) < Position(<<"run_script", n>>)
               /\ asset.schema \in db.schemas
               /\ Sent(<<"exit_zero", n>>) # Sent(<<"exit_nonzero", n>>)
               /\ n \in Range(materialized) <=>
                      (Sent(<<"exit_zero", n>>) /\ db.tables[n] # "absent")
               /\ Sent(<<"exit_nonzero", n>>) =>
                      /\ pc = "failed"
                      /\ error.type = "CalledProcessError"
                      /\ ~Sent(<<"select_table", n>>)
               /\ (Sent(<<"exit_zero", n>>) /\ db.tables[n] = "absent") =>
                      /\ pc = "failed"
                      /\ error = Raise("ValueError", <<n>>, <<asset.path>>)
                      /\ Sent(<<"select_table", n>>)
                      /\ Position(<<"exit_zero", n>>) < Position(<<"select_table", n>>)

C15_Witness ==
    /\ pc = "failed"
    /\ started # <<>>
    /\ Lookup(assets, started[Len(started)]).kind = "bash"
    /\ Sent(<<"exit_zero", started[Len(started)]>>)
    /\ db.tables[started[Len(started)]] = "absent"
    /\ materialized # <<>>

\* C17: a step that dispatches a callable-transform asset and raises the
\* missing-callable or the wrong-return error leaves the whole database as it
\* was and sends it nothing; a step that writes the asset's table or creates
\* its schema has loaded the module and called the callable before it connects,
\* and ends with the asset materialized.
DispatchedNow(kind) ==
    /\ started' # started
    /\ Lookup(assets, started'[Len(started')]).kind = kind

SentNow == SubSeq(journal', Len(journal) + 1, Len(journal'))

C17_PythonChecksBeforeWrite ==
    [][DispatchedNow("python") =>
          LET n == started'[Len(started')]
          IN /\ error'.type \in {"ValueError", "TypeError"} =>
                    /\ db' = db
                    /\ materialized' = materialized
                    /\ \A p \in DOMAIN SentNow : SentNow[p][1] \in {"load_module", "call"}
             /\ db' # db =>
                    /\ error'.type = "none"
                    /\ materialized' = Append(materialized, n)
                    /\ SentNow = Statements(Lookup(assets, n),
                                    <<"load_module", "call", "connect", "create_schema",
                                      "create_table", "close">>)
             /\ error'.type = "none" => db'.tables[n] = "fresh"]_vars

C17_Witness ==
    /\ pc = "failed"
    /\ error.type = "TypeError"
    /\ Lookup(assets, started[Len(started)]).kind = "python"
    /\ db.tables[started[Len(started)]] = "absent"
    /\ Lookup(assets, started[Len(started)]).schema \notin db.schemas

\* C18: when a materializer raises a missing-callable, non-callable,
\* wrong-return, non-zero-exit or missing-table error, the error holds the path
\* of the asset that was being materialized.
C18_ExecutionErrorsCarryPath ==
    (pc = "failed" /\ started # <<>>
        /\ error.type \in {"ValueError", "TypeError", "CalledProcessError"}) =>
        error.paths = <<Lookup(assets, started[Len(started)]).path>>

\* C16: a declarative-query file that parses and holds nothing but blank lines
\* and comments makes materialize_sql raise the empty-body error, with the
\* file's path, before it sends anything to the database.
EmptyBody ==
    \A i \in DOMAIN file.source :
        \/ lstrip(file.source[i]) = <<>>
        \/ startswith(lstrip(file.source[i]), <<"-", "-">>)

C16_EmptyBodyIsEngineError ==
    (started # <<>> /\ made.asset.kind = "sql" /\ EmptyBody) =>
        /\ pc = "failed"
        /\ error = Raise("ValueError", <<>>, <<file.path>>)
        /\ journal = <<>>
        /\ db = db_before

\* The metadata lines of the file and the mapping parse_metadata_lines makes.
MetadataLines ==
    extract_metadata_lines(file.source, COMMENT_PREFIXES[ASSET_SUFFIXES[file.suffix]])

Metadata == parse_metadata_lines(MetadataLines, file.path)

RequiredKeys == {<<"n", "a", "m", "e">>, <<"s", "c", "h", "e", "m", "a">>}

\* The key an error is about: the identifier error of the name key is labelled
\* "table".
KeyOf(e) == IF e.key = <<"t", "a", "b", "l", "e">> THEN <<"n", "a", "m", "e">> ELSE e.key

\* The key is missing, declared more than once, empty or not an identifier.
Defective(key) ==
    LET values == Values(Metadata.metadata, key)
    IN Len(values) # 1 \/ ~IDENTIFIER_RE(values[1])

\* C19, as claimed: parsing succeeds only if both required keys are there once
\* with an identifier as value, and if one of them is missing, declared more
\* than once, empty or malformed, the error holds the path of the file and
\* that key.
C19_KeyErrorsNameFileAndKey ==
    made # <<>> =>
        /\ made.error = NoError => \A key \in RequiredKeys : ~Defective(key)
        /\ (\E key \in RequiredKeys : Defective(key)) =>
               /\ made.error # NoError
               /\ made.error.paths = <<file.path>>
               /\ KeyOf(made.error) \in RequiredKeys
               /\ Defective(KeyOf(made.error))

\* C19, amended: parsing succeeds only if both required keys are there once
\* with an identifier as value.  A file without metadata lines fails with an
\* error that holds the path only; a metadata line that holds the marker and
\* does not match the pattern fails with an error that holds the path and the
\* line; otherwise a missing key, a key declared more than once, an empty value
\* and a malformed identifier each fail with the error of that defect, which
\* holds the path and the key (the label "table" for a malformed name).
C19_RequiredKeys ==
    made # <<>> =>
        /\ made.error = NoError =>
               /\ \A key \in RequiredKeys : ~Defective(key)
               /\ made.asset.schema = Values(Metadata.metadata, <<"s", "c", "h", "e", "m", "a">>)[1]
               /\ made.asset.table = Values(Metadata.metadata, <<"n", "a", "m", "e">>)[1]
        /\ MetadataLines = <<>> =>
               made.error = ParseFailure("MissingMetadata", <<>>, file.path, <<>>)
        /\ (MetadataLines # <<>> /\ Metadata.error # NoError) =>
               /\ made.error.type = "InvalidLine"
               /\ made.error.paths = <<file.path>>
               /\ made.error.quoted \in Range(MetadataLines)
        /\ (MetadataLines # <<>> /\ Metadata.error = NoError
                /\ \E key \in RequiredKeys : Defective(key)) =>
               LET key == KeyOf(made.error)
                   values == Values(Metadata.metadata, key)
               IN /\ made.error.paths = <<file.path>>
                  /\ key \in RequiredKeys
                  /\ made.error.type \in {"MissingKey", "KeyNotOnce", "KeyWithoutValue",
                                         "InvalidIdentifier"}
                  /\ made.error.type = "MissingKey" => values = <<>>
                  /\ made.error.type = "KeyNotOnce" => Len(values) > 1
                  /\ made.error.type = "KeyWithoutValue" => values = <<<<>>>>
                  /\ made.error.type = "InvalidIdentifier" =>
                         /\ Len(values) = 1
                         /\ values[1] # <<>>
                         /\ ~IDENTIFIER_RE(values[1])
                         /\ made.error.quoted = values[1]

C19_Witness ==
    /\ made # <<>>
    /\ made.error.type = "InvalidIdentifier"
    /\ made.error.key = <<"t", "a", "b", "l", "e">>
    /\ Len(Metadata.metadata) = 3

\* C20: the asset asset_from_path makes has an identifier as schema and as
\* table, the name schema "." table, which splits at its first dot into the
\* schema and the table, and dependencies that each split at dots into two
\* identifiers.
FirstDot(s) == Min({i \in DOMAIN s : s[i] = "."})

C20_AssetIsWellFormed ==
    (made # <<>> /\ made.error = NoError) =>
        LET asset == made.asset
        IN /\ IDENTIFIER_RE(asset.schema)
           /\ IDENTIFIER_RE(asset.table)
           /\ asset.name = asset.schema \o <<".">> \o asset.table
           /\ SubSeq(asset.name, 1, FirstDot(asset.name) - 1) = asset.schema
           /\ SubSeq(asset.name, FirstDot(asset.name) + 1, Len(asset.name)) = asset.table
           /\ \A i \in DOMAIN asset.depends :
                  LET parts == split(asset.depends[i], ".")
                  IN Len(parts) = 2 /\ IDENTIFIER_RE(parts[1]) /\ IDENTIFIER_RE(parts[2])
           /\ \A p \in DOMAIN journal : journal[p][2] = asset.name

C20_Witness ==
    /\ made # <<>>
    /\ made.error = NoError
    /\ Len(made.asset.depends) = 2
    /\ Len(made.asset.table) = 3

\* Whether the line is a comment line for the prefix, and whether it is one
\* with content after the prefix.
IsComment(line, prefix) == startswith(lstrip(line), prefix)

HasContent(line, prefix) ==
    /\ IsComment(line, prefix)
    /\ lstrip(SubSeq(lstrip(line), Len(prefix) + 1, Len(lstrip(line)))) # <<>>

\* The first line of the file that does not start with the comment prefix of
\* its kind after leading whitespace, or one past the last line.  A blank line
\* counts once a comment line with content came before it: blank lines before
\* the first metadata line are skipped.
FirstNonComment ==
    LET prefix == COMMENT_PREFIXES[ASSET_SUFFIXES[file.suffix]]
        stops == {i \in DOMAIN file.source :
                     /\ ~IsComment(file.source[i], prefix)
                     /\ \/ lstrip(file.source[i]) # <<>>
                        \/ \E j \in 1..(i - 1) : HasContent(file.source[j], prefix)}
    IN IF stops = {} THEN Len(file.source) + 1 ELSE Min(stops)

\* C21: the metadata lines of a file are those of its lines before the first
\* line that does not start with the comment prefix after leading whitespace:
\* no later line, a comment line after a blank line included, contributes one.
C21_StopsAtFirstNonCommentLine ==
    made # <<>> =>
        MetadataLines =
            extract_metadata_lines(SubSeq(file.source, 1, FirstNonComment - 1),
                                   COMMENT_PREFIXES[ASSET_SUFFIXES[file.suffix]])

\* The tokens of the values of the key "depends", every one of them: each
\* value split at commas, each part trimmed, in declaration order.
RECURSIVE TrimmedTokens(_)
TrimmedTokens(values) ==
    IF values = <<>> THEN <<>>
    ELSE LET parts == split(Head(values), ",")
         IN [i \in DOMAIN parts |-> strip(parts[i])] \o TrimmedTokens(Tail(values))

\* A two-part reference: exactly one dot, both parts identifiers.
IsReference(token) ==
    LET parts == split(token, ".")
    IN Len(parts) = 2 /\ IDENTIFIER_RE(parts[1]) /\ IDENTIFIER_RE(parts[2])

\* The file got as far as its dependencies: its metadata lines parse and both
\* required keys are fine.
ReachesDependencies ==
    /\ made # <<>>
    /\ MetadataLines # <<>>
    /\ Metadata.error = NoError
    /\ \A key \in RequiredKeys : ~Defective(key)

\* C22: every trimmed token of every "depends" value is validated as a
\* two-part reference; a token that is not one, an empty token included, makes
\* the file fail, and otherwise the tokens are the dependencies of the asset,
\* in declaration order.
C22_EveryTokenIsValidated ==
    ReachesDependencies =>
        LET tokens == TrimmedTokens(Values(Metadata.metadata, <<"d", "e", "p", "e", "n", "d", "s">>))
        IN IF \A i \in DOMAIN tokens : IsReference(tokens[i])
           THEN made.error = NoError /\ made.asset.depends = tokens
           ELSE /\ made.error.type \in {"InvalidDependency", "InvalidIdentifier"}
                /\ made.error.paths = <<file.path>>

\* The trimmed tokens that are not empty, and the first of them that is not a
\* reference.
NonEmptyTokens ==
    SelectSeq(TrimmedTokens(Values(Metadata.metadata, <<"d", "e", "p", "e", "n", "d", "s">>)),
              LAMBDA token : token # <<>>)

FirstBadToken ==
    NonEmptyTokens[Min({i \in DOMAIN NonEmptyTokens : ~IsReference(NonEmptyTokens[i])})]

\* C22, amended: empty tokens are skipped; every other trimmed token of every
\* "depends" value is validated as a two-part reference.  The first token that
\* is not one makes the file fail with an error that holds the path and the
\* token (when it has not two parts) or its part that is no identifier;
\* otherwise the tokens that are not empty are the dependencies of the asset,
\* in declaration order.
C22_NonEmptyTokensAreValidated ==
    ReachesDependencies =>
        IF \A i \in DOMAIN NonEmptyTokens : IsReference(NonEmptyTokens[i])
        THEN made.error = NoError /\ made.asset.depends = NonEmptyTokens
        ELSE /\ made.error.paths = <<file.path>>
             /\ IF Len(split(FirstBadToken, ".")) # 2
                THEN made.error.type = "InvalidDependency" /\ made.error.quoted = FirstBadToken
                ELSE /\ made.error.type = "InvalidIdentifier"
                     /\ made.error.quoted \in Range(split(FirstBadToken, "."))
                     /\ ~IDENTIFIER_RE(made.error.quoted)

C22_Witness ==
    /\ ReachesDependencies
    /\ made.error = NoError
    /\ made.asset.depends = <<<<"s", ".", "v">>, <<"s", ".", "u">>>>
    /\ <<>> \in Range(TrimmedTokens(Values(Metadata.metadata, <<"d", "e", "p", "e", "n", "d", "s">>)))

\* The connections the engine holds after the p-th of the steps `sent`, none
\* being held before the first.
Held(sent, p) ==
    Cardinality({q \in 1..p : sent[q][1] = "connect"})
        - Cardinality({q \in 1..p : sent[q][1] = "close"})

DatabaseStatements == {"create_schema", "create_table", "select_table"}

OutsideSteps == {"load_module", "call", "run_script", "exit_zero", "exit_nonzero"}

\* C23: the journal only grows, and in what a step of the run appends to it
\* the engine holds at most one connection at any time and none at the end; a
\* connection is opened, used for the statements of one write or one
\* existence check of one asset, and closed; the engine holds none when a
\* module is loaded, when a callable is called, and from the start of a script
\* to its exit.
C23_OneConnectionAtATime ==
    [][/\ IsPrefix(journal, journal')
       /\ LET sent == SentNow
          IN /\ Held(sent, Len(sent)) = 0
             /\ \A p \in DOMAIN sent :
                    /\ Held(sent, p) \in {0, 1}
                    /\ sent[p][1] \in DatabaseStatements => Held(sent, p) = 1
                    /\ sent[p][1] \in OutsideSteps => Held(sent, p) = 0
                    /\ sent[p][1] = "connect" =>
                           /\ sent[p + 1][1] \in DatabaseStatements
                           /\ \E q \in (p + 2)..(p + 3) :
                                 /\ q \in DOMAIN sent
                                 /\ sent[q][1] = "close"
                                 /\ \A k \in p..q : sent[k][2] = sent[p][2]
                    /\ sent[p][1] = "run_script" =>
                           sent[p + 1][1] \in {"exit_zero", "exit_nonzero"}]_vars

C23_Witness ==
    /\ \E p \in DOMAIN journal : journal[p][1] = "exit_zero"
    /\ \E p \in DOMAIN journal :
          journal[p][1] = "call" /\ p < Len(journal) /\ journal[p + 1][1] = "connect"

\* The set the closure loop of the run was seeded with.
Seeded == InitialSelection(names, all_assets, assets).selected

\* C24: the closure loop ends for every validated dependency map, circular
\* ones included: a name is pushed only when it enters the selection, so the
\* pushes are the names the loop added to the seed, and the iterations, one
\* per seeded and per pushed name, are at most the discovered assets.
C24_ClosureLoopIsBounded ==
    Resolved =>
        /\ pushes = Cardinality(selected) - Cardinality(Seeded)
        /\ Cardinality(Seeded) + pushes <= Len(assets)

C24_Witness ==
    /\ Resolved
    /\ pushes > 0
    /\ HasCycle(selected)

\* The discovered assets the run was asked for: all of them with all_assets,
\* otherwise the requested names.
Requested == IF all_assets THEN keys(assets) ELSE names.items \cap keys(assets)

\* S with the transitive dependencies of its assets.
RECURSIVE WithDependencies(_)
WithDependencies(S) ==
    LET more == S \cup UNION {Declared(n) \cap keys(assets) : n \in S}
    IN IF more = S THEN S ELSE WithDependencies(more)

\* C25: a discovered asset that is neither requested nor a transitive
\* dependency of a requested asset is not in the execution order, its
\* materializer is never called, no statement is sent and no process launched
\* for it, and its table is as it was when the run began.
C25_OnlyTheClosedSelectionRuns ==
    Discovered =>
        \A n \in keys(assets) \ WithDependencies(Requested) :
            /\ n \notin Range(order)
            /\ n \notin Range(started)
            /\ \A p \in DOMAIN journal : journal[p][2] # n
            /\ db.tables[n] = db_before.tables[n]

C25_Witness ==
    /\ pc = "done"
    /\ ~all_assets
    /\ Len(materialized) = 2
    /\ \E n \in keys(assets) \ WithDependencies(Requested) : db.tables[n] = "old"
    /\ \E n \in Range(materialized) : n \notin names.items

====
